---- MODULE Spec2Model ----
(***************************************************************************)
(* Model of api/routes/notes.py: the notes table, the route handlers that  *)
(* create, read, rank, aggregate and delete notes, and the out-of-band     *)
(* writers (scorer, storage) the handlers share the table with.            *)
(***************************************************************************)
EXTENDS Integers, Sequences, FiniteSets, TLC

VARIABLES store, nextId, req, resp

vars == <<store, nextId, req, resp>>

(***************************************************************************)
(* Bounds of the model.                                                    *)
(***************************************************************************)
MaxNotes == 2
MaxReqs == 1
MaxRankNotes == 2
MaxClassNotes == 3
MaxSourceNotes == 2
MaxPageExtra == 1

(***************************************************************************)
(* Program constants.                                                      *)
(***************************************************************************)
MaxLimit == 100
DefaultLimit == 50
InterceptSentinel == -999

NEEDS_MORE_RATINGS == "needs_more_ratings"
CURRENTLY_RATED_HELPFUL == "currently_rated_helpful"
CURRENTLY_RATED_NOT_HELPFUL == "currently_rated_not_helpful"
NoteStatus == {NEEDS_MORE_RATINGS, CURRENTLY_RATED_HELPFUL, CURRENTLY_RATED_NOT_HELPFUL}

Classifications == {"promise_kept", "promise_broken"}
PromiseIds == {1, 2}
AuthorIds == {1, 2}

(* Optional values: None is the empty sequence, Some(v) the one-element one. *)
None == <<>>
Some(v) == <<v>>
IsNone(o) == o = <<>>
Val(o) == o[1]

Intercepts == {None, Some(-1000), Some(-1), Some(0), Some(1)}

Reqs == 1..MaxReqs

(***************************************************************************)
(* json.dumps / json.loads on a list of strings.  A text is a sequence of  *)
(* tokens: "[", "]", "," and the quoted strings.                           *)
(***************************************************************************)
RECURSIVE json_dumps_items(_)
json_dumps_items(l) ==
    IF l = <<>> THEN <<>>
    ELSE IF Len(l) = 1 THEN <<l[1]>>
    ELSE <<l[1], ",">> \o json_dumps_items(Tail(l))

json_dumps(l) == <<"[">> \o json_dumps_items(l) \o <<"]">>

IsStringToken(t) == t \notin {"[", "]", ","}

(* The items between the brackets: s1 , s2 , ... , sn *)
RECURSIVE json_items_ok(_)
json_items_ok(t) ==
    IF Len(t) = 1 THEN IsStringToken(t[1])
    ELSE /\ Len(t) >= 3
         /\ IsStringToken(t[1])
         /\ t[2] = ","
         /\ json_items_ok(Tail(Tail(t)))

json_valid(t) ==
    /\ Len(t) >= 2
    /\ t[1] = "["
    /\ t[Len(t)] = "]"
    /\ \/ Len(t) = 2
       \/ json_items_ok(SubSeq(t, 2, Len(t) - 1))

json_list(t) ==
    LET inner == SubSeq(t, 2, Len(t) - 1)
    IN  [i \in 1..((Len(inner) + 1) \div 2) |-> inner[2 * i - 1]]

(* json.loads: the decoded list, or the JSONDecodeError it raises. *)
json_loads(t) ==
    IF json_valid(t) THEN [ok |-> TRUE, value |-> json_list(t)]
    ELSE [ok |-> FALSE, value |-> <<>>]

(***************************************************************************)
(* The notes table: a function from the ids of the stored rows to rows.    *)
(***************************************************************************)
EmptyStore == [i \in {} |-> None]

Insert(st, note) ==
    [i \in DOMAIN st \cup {note.id} |-> IF i = note.id THEN note ELSE st[i]]

Remove(st, id) == [i \in DOMAIN st \ {id} |-> st[i]]

(* db.query(Note).filter(Note.id == note_id).first() *)
first_by_id(st, note_id) ==
    IF note_id \in DOMAIN st THEN Some(st[note_id]) ELSE None

NoResp == [op |-> "none"]
Idle == [pc |-> "idle", note_id |-> 0, author_id |-> 0, code |-> 0]

(***************************************************************************)
(* _note_to_response: the response model of a row, or the exception that   *)
(* json.loads raises on the stored sources text.                           *)
(***************************************************************************)
Truthy(text) == ~IsNone(text) /\ Val(text) # <<>>

sources_of(note) ==
    IF Truthy(note.sources) THEN json_loads(Val(note.sources))
    ELSE [ok |-> TRUE, value |-> <<>>]

_note_to_response(note) ==
    LET src == sources_of(note)
    IN  [ok |-> src.ok,
         id |-> note.id,
         promise_id |-> note.promise_id,
         author_id |-> note.author_id,
         sources |-> src.value,
         classification |-> note.classification,
         status |-> note.status,
         note_intercept |-> note.note_intercept,
         created_at |-> note.created_at]

(* [_note_to_response(n) for n in notes]: raises as soon as one row raises. *)
responses_of(notes) == [i \in 1..Len(notes) |-> _note_to_response(notes[i])]

AllOk(rs) == \A i \in 1..Len(rs) : rs[i].ok

(***************************************************************************)
(* Query results and orderings.                                            *)
(***************************************************************************)
(* The orders in which a query without ORDER BY may return the rows ids. *)
Orders(ids) ==
    LET n == Cardinality(ids)
    IN  {s \in [1..n -> ids] : \A i, j \in 1..n : i # j => s[i] # s[j]}

(* Keys are tuples of integers of one length, compared as Python and SQL
   compare them: by the first component that differs. *)
LexLess(k1, k2) ==
    \E i \in 1..Len(k1) :
        /\ k1[i] < k2[i]
        /\ \A j \in 1..(i - 1) : k1[j] = k2[j]

(* A stable merge sort of <<key, row>> pairs by key. *)
RECURSIVE Merge(_, _)
Merge(a, b) ==
    IF a = <<>> THEN b
    ELSE IF b = <<>> THEN a
    ELSE IF LexLess(b[1][1], a[1][1]) THEN <<b[1]>> \o Merge(a, Tail(b))
    ELSE <<a[1]>> \o Merge(Tail(a), b)

RECURSIVE MergeSort(_)
MergeSort(s) ==
    IF Len(s) <= 1 THEN s
    ELSE LET h == Len(s) \div 2
         IN  Merge(MergeSort(SubSeq(s, 1, h)), MergeSort(SubSeq(s, h + 1, Len(s))))

(* sorted(), and ORDER BY: the rows of <<key, row>> pairs, in key order,
   rows of equal keys in the order given. *)
Sorted(keyed) ==
    LET merged == MergeSort(keyed)
    IN  [i \in 1..Len(keyed) |-> merged[i][2]]

(* The rows with the given ids, in id order. *)
RECURSIVE RowsOf(_, _)
RowsOf(st, ids) ==
    IF ids = {} THEN <<>>
    ELSE LET id == CHOOSE x \in ids : \A y \in ids : x <= y
         IN  <<st[id]>> \o RowsOf(st, ids \ {id})

Max(a, b) == IF a >= b THEN a ELSE b
Min(a, b) == IF a <= b THEN a ELSE b

(* The database engines the session may be bound to. *)
Dialects == {"sqlite", "postgresql"}

(* query.offset(offset).limit(limit).all(): SQLite reads a negative LIMIT as
   no limit and a negative OFFSET as 0; PostgreSQL rejects either. *)
Page(rows, limit, offset, dialect) ==
    IF dialect = "postgresql" /\ (limit < 0 \/ offset < 0)
    THEN [ok |-> FALSE, rows |-> <<>>]
    ELSE LET off == Max(offset, 0)
             lim == IF limit < 0 THEN Len(rows) ELSE limit
         IN  [ok |-> TRUE,
              rows |-> SubSeq(rows, off + 1, Min(off + lim, Len(rows)))]

(* Python's `x or d` on an optional number: None and 0 are falsy. *)
Or(o, d) == IF IsNone(o) \/ Val(o) = 0 THEN d ELSE Val(o)

(***************************************************************************)
(* create_note                                                             *)
(***************************************************************************)
create_note(promise_id, author_id, sources, classification) ==
    LET note == [id |-> nextId,
                 promise_id |-> promise_id,
                 author_id |-> author_id,
                 sources |-> Some(json_dumps(sources)),
                 classification |-> classification,
                 status |-> NEEDS_MORE_RATINGS,
                 note_intercept |-> None,
                 created_at |-> nextId]
    IN  /\ store' = Insert(store, note)
        /\ nextId' = nextId + 1
        /\ resp' = [op |-> "create_note", code |-> 201,
                    note |-> _note_to_response(note)]
        /\ UNCHANGED req

(***************************************************************************)
(* The external scorer: writes status and note_intercept of a stored row.  *)
(***************************************************************************)
ScoringWrite(id, status, intercept) ==
    /\ id \in DOMAIN store
    /\ store' = [store EXCEPT ![id].status = status,
                              ![id].note_intercept = intercept]
    /\ UNCHANGED <<nextId, req, resp>>

(***************************************************************************)
(* delete_note: the SELECT and the three checks on the loaded row, then    *)
(* the DELETE of that row in a second round trip.                          *)
(***************************************************************************)
(* Mutant: the status check runs before the ownership check. *)
DeleteGuard_status_first(note, author_id) ==
    IF IsNone(note) THEN 404
    ELSE IF Val(note).status = CURRENTLY_RATED_HELPFUL THEN 400
    ELSE IF Val(note).author_id # author_id THEN 403
    ELSE 0

(* Mutant: the status check is missing. *)
DeleteGuard_no_status(note, author_id) ==
    IF IsNone(note) THEN 404
    ELSE IF Val(note).author_id # author_id THEN 403
    ELSE 0

DeleteGuard(note, author_id) ==
    IF IsNone(note) THEN 404
    ELSE IF Val(note).author_id # author_id THEN 403
    ELSE IF Val(note).status = CURRENTLY_RATED_HELPFUL THEN 400
    ELSE 0

(* Mutant: the row is deleted before the status check rejects the call. *)
delete_note_query_early_delete(r, note_id, author_id) ==
    LET note == first_by_id(store, note_id)
        code == DeleteGuard_status_first(note, author_id)
    IN  /\ req[r].pc \in {"idle", "done"}
        /\ req' = [req EXCEPT ![r] =
                      [pc |-> IF code = 0 THEN "delete" ELSE "done",
                       note_id |-> note_id,
                       author_id |-> author_id,
                       code |-> code]]
        /\ store' = IF code = 400 THEN Remove(store, note_id) ELSE store
        /\ UNCHANGED <<nextId, resp>>

delete_note_query(r, note_id, author_id) ==
    LET note == first_by_id(store, note_id)
        code == DeleteGuard(note, author_id)
    IN  /\ req[r].pc \in {"idle", "done"}
        /\ req' = [req EXCEPT ![r] =
                      [pc |-> IF code = 0 THEN "delete" ELSE "done",
                       note_id |-> note_id,
                       author_id |-> author_id,
                       code |-> code]]
        /\ UNCHANGED <<store, nextId, resp>>

delete_note_commit(r) ==
    /\ req[r].pc = "delete"
    /\ store' = Remove(store, req[r].note_id)
    /\ req' = [req EXCEPT ![r].pc = "done", ![r].code = 204]
    /\ UNCHANGED <<nextId, resp>>

(***************************************************************************)
(* get_note                                                                *)
(***************************************************************************)
get_note(note_id) ==
    LET note == first_by_id(store, note_id)
    IN  /\ resp' = IF IsNone(note)
                   THEN [op |-> "get_note", code |-> 404]
                   ELSE IF _note_to_response(Val(note)).ok
                   THEN [op |-> "get_note", code |-> 200,
                         notes |-> <<_note_to_response(Val(note))>>]
                   ELSE [op |-> "get_note", code |-> 500]
        /\ UNCHANGED <<store, nextId, req>>

(***************************************************************************)
(* get_notes_by_author and get_notes_for_promise                           *)
(***************************************************************************)
(* limit: int = Query(default=50, le=100) *)
LimitOf(limit) == IF IsNone(limit) THEN DefaultLimit ELSE Val(limit)

LimitValid(limit) == LimitOf(limit) <= MaxLimit

StatusMatches(note, status) == IsNone(status) \/ note.status = Val(status)

(* The response of a list handler from its ordered query; the response
   record keeps the limit and offset of the call it answers. *)
ListResponse(op, ordered, limit, offset, dialect) ==
    IF ~LimitValid(limit)
    THEN [op |-> op, limit |-> limit, offset |-> offset, code |-> 422]
    ELSE LET page == Page(ordered, LimitOf(limit), offset, dialect)
             out == responses_of(page.rows)
         IN  IF page.ok /\ AllOk(out)
             THEN [op |-> op, limit |-> limit, offset |-> offset, code |-> 200,
                   notes |-> out]
             ELSE [op |-> op, limit |-> limit, offset |-> offset, code |-> 500]

(* Note.created_at.desc() *)
NewestFirst(n) == <<-n.created_at>>

ByNewestFirst(rows) == [i \in 1..Len(rows) |-> <<NewestFirst(rows[i]), rows[i]>>]

get_notes_by_author(author_id, status, limit, offset) ==
    LET rows == RowsOf(store, {i \in DOMAIN store :
                     /\ store[i].author_id = author_id
                     /\ StatusMatches(store[i], status)})
    IN  /\ \E dialect \in Dialects :
             resp' = ListResponse("get_notes_by_author",
                                  Sorted(ByNewestFirst(rows)), limit, offset, dialect)
        /\ UNCHANGED <<store, nextId, req>>

(* Note.note_intercept.desc().nullslast(), Note.created_at.desc() *)
InterceptFirst(n) ==
    IF IsNone(n.note_intercept) THEN <<1, 0, -n.created_at>>
    ELSE <<0, -Val(n.note_intercept), -n.created_at>>

ByInterceptFirst(rows) ==
    [i \in 1..Len(rows) |-> <<InterceptFirst(rows[i]), rows[i]>>]

get_notes_for_promise(promise_id, status, limit, offset) ==
    LET rows == RowsOf(store, {i \in DOMAIN store :
                     /\ store[i].promise_id = promise_id
                     /\ StatusMatches(store[i], status)})
    IN  /\ \E dialect \in Dialects :
             resp' = ListResponse("get_notes_for_promise",
                                  Sorted(ByInterceptFirst(rows)), limit, offset, dialect)
        /\ UNCHANGED <<store, nextId, req>>

(***************************************************************************)
(* get_scored_notes_for_promise                                            *)
(***************************************************************************)
Tier(n) == IF n.status = CURRENTLY_RATED_HELPFUL THEN 0 ELSE 1

(* Mutant: the sort key has no tier. *)
ScoredKey_no_tier(n) == <<0, -Or(n.note_intercept, InterceptSentinel)>>

ScoredKey(n) == <<Tier(n), -Or(n.note_intercept, InterceptSentinel)>>

ByScoredKey(notes) == [i \in 1..Len(notes) |-> <<ScoredKey(notes[i]), notes[i]>>]

CountWhere(notes, status) ==
    Cardinality({i \in 1..Len(notes) : notes[i].status = status})

(* Mutant: needs_more_ratings_count counts every note that is not helpful. *)
ScoredStats_not_helpful(notes) ==
    [total_notes |-> Len(notes),
     helpful_notes_count |-> CountWhere(notes, CURRENTLY_RATED_HELPFUL),
     needs_more_ratings_count |->
         Len(notes) - CountWhere(notes, CURRENTLY_RATED_HELPFUL)]

ScoredStats(notes) ==
    [total_notes |-> Len(notes),
     helpful_notes_count |-> CountWhere(notes, CURRENTLY_RATED_HELPFUL),
     needs_more_ratings_count |-> CountWhere(notes, NEEDS_MORE_RATINGS)]

get_scored_notes_for_promise(promise_id) ==
    \E order \in Orders({id \in DOMAIN store : store[id].promise_id = promise_id}) :
        LET notes == [i \in 1..Len(order) |-> store[order[i]]]
            stats == ScoredStats(notes)
            sorted_notes == Sorted(ByScoredKey(notes))
            out == responses_of(sorted_notes)
        IN  /\ resp' = IF AllOk(out)
                       THEN [op |-> "get_scored_notes_for_promise",
                             code |-> 200,
                             promise_id |-> promise_id,
                             notes |-> out,
                             total_notes |-> stats.total_notes,
                             helpful_notes_count |-> stats.helpful_notes_count,
                             needs_more_ratings_count |->
                                 stats.needs_more_ratings_count]
                       ELSE [op |-> "get_scored_notes_for_promise",
                             code |-> 500,
                             promise_id |-> promise_id]
            /\ UNCHANGED <<store, nextId, req>>

(***************************************************************************)
(* get_notes_by_classification                                             *)
(***************************************************************************)
(* Mutant: the status filter is missing from the query. *)
ClassificationRows_any_status(promise_id) ==
    {id \in DOMAIN store : store[id].promise_id = promise_id}

ClassificationRows(promise_id) ==
    {id \in DOMAIN store :
        /\ store[id].promise_id = promise_id
        /\ store[id].status = CURRENTLY_RATED_HELPFUL}

get_notes_by_classification(promise_id) ==
    LET rows == ClassificationRows(promise_id)
        groups == {store[id].classification : id \in rows}
    IN  /\ resp' = [op |-> "get_notes_by_classification",
                    code |-> 200,
                    promise_id |-> promise_id,
                    classifications |->
                        [c \in groups |->
                            Cardinality({id \in rows : store[id].classification = c})]]
        /\ UNCHANGED <<store, nextId, req>>

(***************************************************************************)
(* Specification of the note lifecycle: creation, scoring, deletion.       *)
(***************************************************************************)
Init ==
    /\ store = EmptyStore
    /\ nextId = 1
    /\ req = [r \in Reqs |-> Idle]
    /\ resp = NoResp

Create ==
    /\ nextId <= MaxNotes
    /\ \E a \in AuthorIds : create_note(1, a, <<>>, "promise_kept")

Score == \E id \in DOMAIN store, s \in NoteStatus : ScoringWrite(id, s, Some(1))

DeleteQuery ==
    \E r \in Reqs, id \in 1..MaxNotes, a \in AuthorIds : delete_note_query(r, id, a)

DeleteCommit == \E r \in Reqs : delete_note_commit(r)

Next == Create \/ Score \/ DeleteQuery \/ DeleteCommit

Spec == Init /\ [][Next]_vars

(***************************************************************************)
(* Claims about delete_note.                                               *)
(***************************************************************************)
(* A step in which request r runs the SELECT and the checks of delete_note. *)
Queried(r) == req[r].pc \in {"idle", "done"} /\ req'[r] # req[r]

(* A step in which request r ends. *)
Ended(r) == req'[r] # req[r] /\ req'[r].pc = "done"

Failure == {400, 403, 404}

(* C1, as stated: delete_note on an existing note whose status is
   CURRENTLY_RATED_HELPFUL fails with the protected-state violation (400)
   for every requester, and the note stays in the store. *)
C1_HelpfulAlways400 ==
    [][\A r \in Reqs :
          (/\ Queried(r)
           /\ req'[r].note_id \in DOMAIN store
           /\ store[req'[r].note_id].status = CURRENTLY_RATED_HELPFUL)
          => (req'[r].pc = "done" /\ req'[r].code = 400 /\ store' = store)]_vars

(* C1, amended: delete_note on an existing CURRENTLY_RATED_HELPFUL note always
   fails and leaves the store unchanged: with the protected-state violation
   (400) when the requester is the note's author, with the ownership violation
   (403) when the requester is not. *)
C1_HelpfulNeverDeleted ==
    [][\A r \in Reqs :
          (/\ Queried(r)
           /\ req'[r].note_id \in DOMAIN store
           /\ store[req'[r].note_id].status = CURRENTLY_RATED_HELPFUL)
          => /\ req'[r].pc = "done"
             /\ req'[r].code =
                  IF store[req'[r].note_id].author_id = req'[r].author_id
                  THEN 400 ELSE 403
             /\ store' = store]_vars

C1_Witness ==
    \E r \in Reqs :
        /\ req[r].pc = "done" /\ req[r].code = 400
        /\ req[r].note_id \in DOMAIN store
        /\ store[req[r].note_id].status = CURRENTLY_RATED_HELPFUL
        /\ store[req[r].note_id].author_id = req[r].author_id

(* C2: delete_note on an existing note whose author_id differs from the
   requester's author_id fails with the ownership violation (403), whatever
   the note's status, and the note stays in the store. *)
C2_OwnershipGuard ==
    [][\A r \in Reqs :
          (/\ Queried(r)
           /\ req'[r].note_id \in DOMAIN store
           /\ store[req'[r].note_id].author_id # req'[r].author_id)
          => (req'[r].pc = "done" /\ req'[r].code = 403 /\ store' = store)]_vars

C2_Witness ==
    \E r \in Reqs :
        /\ req[r].pc = "done" /\ req[r].code = 403
        /\ req[r].note_id \in DOMAIN store
        /\ store[req[r].note_id].status = CURRENTLY_RATED_HELPFUL
        /\ store[req[r].note_id].author_id # req[r].author_id

(* C3: a note whose stored status is CURRENTLY_RATED_HELPFUL is never removed
   from the store, under every interleaving of delete_note with scoring
   writes. *)
C3_HelpfulNeverRemoved ==
    [][\A id \in DOMAIN store :
          store[id].status = CURRENTLY_RATED_HELPFUL => id \in DOMAIN store']_vars

(* C10: every delete_note call that ends in a failure leaves the store
   unchanged, and a delete_note on a note id that is not stored ends in
   not-found (404). *)
C10_FailureLeavesStore ==
    [][\A r \in Reqs :
          /\ (Ended(r) /\ req'[r].code \in Failure) => store' = store
          /\ (Queried(r) /\ req'[r].note_id \notin DOMAIN store)
             => (req'[r].pc = "done" /\ req'[r].code = 404)]_vars

C10_Witness ==
    \E r \in Reqs :
        /\ req[r].pc = "done" /\ req[r].code = 404
        /\ req[r].note_id \notin DOMAIN store
        /\ store # EmptyStore

(***************************************************************************)
(* Specification of ranking: get_scored_notes_for_promise applied to every *)
(* table of at most MaxRankNotes notes of two promises, in every status    *)
(* and with every intercept the scorer may have written.  Each such table  *)
(* is one that create_note and ScoringWrite steps produce.                 *)
(***************************************************************************)
Row(id, promise_id, author_id, sources, classification, status, intercept) ==
    [id |-> id,
     promise_id |-> promise_id,
     author_id |-> author_id,
     sources |-> sources,
     classification |-> classification,
     status |-> status,
     note_intercept |-> intercept,
     created_at |-> id]

InitRank ==
    /\ \E n \in 0..MaxRankNotes :
         \E ps \in [1..n -> PromiseIds], ss \in [1..n -> NoteStatus],
            xs \in [1..n -> Intercepts] :
             /\ store = [i \in 1..n |->
                           Row(i, ps[i], 1, Some(json_dumps(<<>>)), "promise_kept",
                               ss[i], xs[i])]
             /\ nextId = n + 1
    /\ req = [r \in Reqs |-> Idle]
    /\ resp = NoResp

GetScored == \E p \in PromiseIds : get_scored_notes_for_promise(p)

NextRank == GetScored

SpecRank == InitRank /\ [][NextRank]_vars

(***************************************************************************)
(* Claims about get_scored_notes_for_promise.                              *)
(***************************************************************************)
IsScored == resp.op = "get_scored_notes_for_promise" /\ resp.code = 200

Helpful(n) == n.status = CURRENTLY_RATED_HELPFUL

PromiseRows(p) == {id \in DOMAIN store : store[id].promise_id = p}

(* C4: in the returned list every CURRENTLY_RATED_HELPFUL note precedes
   every note of any other status, whatever the intercepts. *)
C4_HelpfulFirst ==
    IsScored =>
        \A i, j \in 1..Len(resp.notes) :
            (Helpful(resp.notes[j]) /\ ~Helpful(resp.notes[i])) => j < i

C4_Witness ==
    /\ IsScored
    /\ \E i, j \in 1..Len(resp.notes) :
         /\ i < j
         /\ Helpful(resp.notes[i]) /\ resp.notes[i].note_intercept = None
         /\ ~Helpful(resp.notes[j]) /\ resp.notes[j].note_intercept = Some(1)

(* C5: within one tier, a note with a higher non-null intercept precedes a
   note with a lower one, and a note with a null intercept comes after every
   note of its tier that has a non-null intercept. *)
C5_InterceptOrder ==
    IsScored =>
        \A i, j \in 1..Len(resp.notes) :
            LET a == resp.notes[i].note_intercept
                b == resp.notes[j].note_intercept
            IN  (Helpful(resp.notes[i]) = Helpful(resp.notes[j]) /\ ~IsNone(a)) =>
                    /\ (~IsNone(b) /\ Val(a) > Val(b)) => i < j
                    /\ IsNone(b) => i < j

(* C6: total_notes is the number of stored notes of the promise,
   helpful_notes_count the number of those that are CURRENTLY_RATED_HELPFUL,
   needs_more_ratings_count the number of those that are NEEDS_MORE_RATINGS,
   and total_notes is the length of the returned list. *)
C6_Counts ==
    IsScored =>
        LET rows == PromiseRows(resp.promise_id)
        IN  /\ resp.total_notes = Cardinality(rows)
            /\ resp.helpful_notes_count =
                 Cardinality({id \in rows : store[id].status = CURRENTLY_RATED_HELPFUL})
            /\ resp.needs_more_ratings_count =
                 Cardinality({id \in rows : store[id].status = NEEDS_MORE_RATINGS})
            /\ resp.helpful_notes_count + resp.needs_more_ratings_count
                 <= resp.total_notes
            /\ Len(resp.notes) = resp.total_notes
            /\ {resp.notes[i].id : i \in 1..Len(resp.notes)} = rows

C6_Witness ==
    /\ IsScored
    /\ resp.total_notes = 1
    /\ resp.helpful_notes_count = 0
    /\ resp.needs_more_ratings_count = 0
    /\ Cardinality(DOMAIN store) = 2

(***************************************************************************)
(* Specification of the classification breakdown:                          *)
(* get_notes_by_classification applied to every table of at most           *)
(* MaxClassNotes notes of two promises and two classifications.            *)
(***************************************************************************)
InitClass ==
    /\ \E n \in 0..MaxClassNotes :
         \E ps \in [1..n -> PromiseIds], ss \in [1..n -> NoteStatus],
            cs \in [1..n -> Classifications] :
             /\ store = [i \in 1..n |->
                           Row(i, ps[i], 1, Some(json_dumps(<<>>)), cs[i],
                               ss[i], None)]
             /\ nextId = n + 1
    /\ req = [r \in Reqs |-> Idle]
    /\ resp = NoResp

GetByClassification == \E p \in PromiseIds : get_notes_by_classification(p)

NextClass == GetByClassification

SpecClass == InitClass /\ [][NextClass]_vars

HelpfulOf(p, c) ==
    {id \in DOMAIN store :
        /\ store[id].promise_id = p
        /\ store[id].classification = c
        /\ store[id].status = CURRENTLY_RATED_HELPFUL}

(* C7: the keys of the returned mapping are exactly the classifications with
   at least one CURRENTLY_RATED_HELPFUL note of the promise, each mapped to
   the number of such notes; no classification is mapped to 0. *)
C7_ClassificationCounts ==
    resp.op = "get_notes_by_classification" =>
        /\ DOMAIN resp.classifications =
             {c \in Classifications : HelpfulOf(resp.promise_id, c) # {}}
        /\ \A c \in DOMAIN resp.classifications :
             /\ resp.classifications[c] = Cardinality(HelpfulOf(resp.promise_id, c))
             /\ resp.classifications[c] > 0

C7_Witness ==
    /\ resp.op = "get_notes_by_classification"
    /\ DOMAIN resp.classifications = {"promise_kept"}
    /\ resp.classifications["promise_kept"] = 1
    /\ \E id \in DOMAIN store :
         /\ store[id].promise_id = resp.promise_id
         /\ store[id].classification = "promise_broken"
         /\ store[id].status # CURRENTLY_RATED_HELPFUL

(***************************************************************************)
(* Specification of pagination: the two list handlers applied to tables of *)
(* notes of one author and one promise, the first of them scored helpful,  *)
(* of sizes around the default and the largest page size.                  *)
(***************************************************************************)
PageSizes ==
    {0, 1, 2, DefaultLimit, DefaultLimit + 1, MaxLimit - 1, MaxLimit}
        \cup (MaxLimit + 1)..(MaxLimit + MaxPageExtra)

InitPage ==
    /\ \E n \in PageSizes :
         /\ store = [i \in 1..n |->
                       IF i = 1
                       THEN Row(i, 1, 1, Some(json_dumps(<<>>)), "promise_kept",
                                CURRENTLY_RATED_HELPFUL, Some(1))
                       ELSE Row(i, 1, 1, Some(json_dumps(<<>>)), "promise_kept",
                                NEEDS_MORE_RATINGS, None)]
         /\ nextId = n + 1
    /\ req = [r \in Reqs |-> Idle]
    /\ resp = NoResp

PageLimits == {None, Some(-1), Some(0), Some(MaxLimit), Some(MaxLimit + 1), Some(500)}
PageOffsets == {-1, 0, 1}
PageStatus == {None, Some(NEEDS_MORE_RATINGS)}

ListByAuthor ==
    \E status \in PageStatus, limit \in PageLimits, offset \in PageOffsets :
        get_notes_by_author(1, status, limit, offset)

ListByPromise ==
    \E status \in PageStatus, limit \in PageLimits, offset \in PageOffsets :
        get_notes_for_promise(1, status, limit, offset)

NextPage == ListByAuthor \/ ListByPromise

SpecPage == InitPage /\ [][NextPage]_vars

IsList == resp.op \in {"get_notes_by_author", "get_notes_for_promise"}

(* C8: for every limit and offset, one call to get_notes_by_author or
   get_notes_for_promise is rejected or returns at most 100 notes. *)
C8_PageBound ==
    IsList => (resp.code # 200 \/ Len(resp.notes) <= MaxLimit)

(***************************************************************************)
(* Specification of reading stored sources: the four read paths applied to *)
(* tables whose sources column holds what create_note writes, nothing      *)
(* (NULL or the empty string), or a text that is not a serialized list.    *)
(***************************************************************************)
RawSources ==
    {None, Some(<<>>), Some(json_dumps(<<>>)), Some(json_dumps(<<"a", "b">>)),
     Some(<<"[", "a">>)}

InitSources ==
    /\ \E n \in 0..MaxSourceNotes :
         \E src \in [1..n -> RawSources] :
             /\ store = [i \in 1..n |->
                           Row(i, 1, 1, src[i], "promise_kept",
                               NEEDS_MORE_RATINGS, None)]
             /\ nextId = n + 1
    /\ req = [r \in Reqs |-> Idle]
    /\ resp = NoResp

ReadNote == \E id \in 1..MaxSourceNotes : get_note(id)

ReadByAuthor == get_notes_by_author(1, None, None, 0)

ReadByPromise == get_notes_for_promise(1, None, None, 0)

ReadScored == get_scored_notes_for_promise(1)

NextSources == ReadNote \/ ReadByAuthor \/ ReadByPromise \/ ReadScored

SpecSources == InitSources /\ [][NextSources]_vars

Absent(text) == ~Truthy(text)

Corrupt(text) == Truthy(text) /\ ~json_valid(Val(text))

ReadOps ==
    {"get_note", "get_notes_by_author", "get_notes_for_promise",
     "get_scored_notes_for_promise"}

(* C9: a read of a note whose stored sources is absent or corrupt does not
   fail and yields the note with sources = [], on every read path. *)
C9_SourcesDegrade ==
    (resp.op \in ReadOps /\ resp.code # 404) =>
        /\ resp.code = 200
        /\ \A i \in 1..Len(resp.notes) :
             LET stored == store[resp.notes[i].id].sources
             IN  (Absent(stored) \/ Corrupt(stored)) => resp.notes[i].sources = <<>>

====
